---- MODULE Spec2Model ----
(***************************************************************************)
(* Tab-title-randomiser (src/popup.js): the save / disguise / restore      *)
(* state machine of the popup.                                             *)
(*                                                                         *)
(* The browser is the environment: tabs open, navigate and close, and a    *)
(* script injection (chrome.scripting.executeScript) is dispatched in one  *)
(* step and settles in a later one, with success or with a failure.        *)
(* Every `await` of manageTabs and undoChanges is a step boundary, so two  *)
(* invocations started by two clicks interleave at their awaits.           *)
(***************************************************************************)
EXTENDS Integers, Sequences, FiniteSets, TLC

(* ------------------------------ bounds -------------------------------- *)
\* tab identifiers the browser hands out, 1..MaxTabs, never reused
MaxTabs == 2
\* invocation contexts that may be in flight at once (clicks not yet returned)
NSlots == 2
\* manageTabs / undoChanges invocations started in one behaviour
MaxInv == 3
\* invocations started in one behaviour when clicks may overlap
MaxOverlapInv == 2
\* navigations and closings of tabs in one behaviour
MaxNav == 1
\* the values Math.random() is drawn from: k / RandomSteps for k in 0..RandomSteps-1
RandomSteps == 4

TabIds == 1..MaxTabs
Slots == 1..NSlots

(* --------------------------- page documents --------------------------- *)
Null == "<null>"
\* the zero-width space U+200B, popup.js:226
ZWSP == "<zwsp>"
\* the transparent 1x1 GIF data URI, popup.js:227 and popup.js:290
blankFavicon == "data:image/gif;base64,R0lGODlhAQABAIAAAAAAAP///yH5BAEAAAAALAAAAAABAAEAAAIBRAA7"
\* `${origin}/favicon.ico`, popup.js:188
FaviconIco == "<origin>/favicon.ico"

\* a JavaScript string or null used as a condition
Truthy(s) == s # Null /\ s # ""

\* the selector link[rel*='icon'] over the rel values the model's pages use
IsIconRel(rel) == rel \in {"icon", "shortcut icon", "apple-touch-icon"}

Link(rel, href) == [rel |-> rel, href |-> href]

IsIconLink(l) == IsIconRel(l.rel)

IsOtherLink(l) == ~IsIconRel(l.rel)

IsExactIcon(l) == l.rel = "icon"

IsShortcutIcon(l) == l.rel = "shortcut icon"

\* document.querySelectorAll("link[rel*='icon']")
IconLinks(doc) == SelectSeq(doc.links, IsIconLink)

\* the links of the page that the selector does not match
OtherLinks(doc) == SelectSeq(doc.links, IsOtherLink)

\* the iconLink of getTabDetails: << >> for null, else a one-element sequence
QueryIconLink(doc) ==
  LET exact == SelectSeq(doc.links, IsExactIcon)
      shortcut == SelectSeq(doc.links, IsShortcutIcon)
      any == IconLinks(doc)
  IN IF exact # << >> THEN <<Head(exact)>>
     ELSE IF shortcut # << >> THEN <<Head(shortcut)>>
     ELSE IF any # << >> THEN <<Head(any)>>
     ELSE << >>

Details(title, href, rel) == [title |-> title, faviconHref |-> href, faviconRel |-> rel]

\* getTabDetails; `complete` is what img.complete answers right after img.src is set
GetTabDetails(doc, complete) ==
  LET iconLink == QueryIconLink(doc)
  IN IF iconLink = << >> /\ complete
       THEN Details(doc.title, FaviconIco, "icon")
     ELSE IF iconLink = << >> /\ doc.meta # Null
       THEN Details(doc.title, doc.meta, "icon")
     ELSE Details(doc.title,
                  IF iconLink # << >> THEN iconLink[1].href ELSE Null,
                  IF iconLink # << >> THEN iconLink[1].rel ELSE "icon")

\* document.head.appendChild(link), for a document that has a head (without
\* one the call throws: the callers test doc.head)
AppendChild(doc, link) == [doc EXCEPT !.links = Append(@, link)]

\* a link element with rel 'icon' and the blank favicon as href
BlankIcon == Link("icon", blankFavicon)

\* links.forEach(link => { link.href = blankFavicon; link.rel = 'icon' })
BlankAll(links) ==
  [i \in 1..Len(links) |-> IF IsIconLink(links[i]) THEN BlankIcon ELSE links[i]]

\* a purge that blanks the icons and leaves the title
PurgeNoTitle(doc) ==
  [doc |-> [doc EXCEPT !.links = BlankAll(@)], threw |-> FALSE]

\* purgeTabDetails: the page after it, and whether it threw
PurgeTabDetails(doc) ==
  LET titled == [doc EXCEPT !.title = ZWSP]
  IN IF IconLinks(doc) # << >>
       THEN [doc |-> [titled EXCEPT !.links = BlankAll(@)], threw |-> FALSE]
     ELSE IF doc.head
       THEN [doc |-> AppendChild(titled, BlankIcon), threw |-> FALSE]
     ELSE [doc |-> titled, threw |-> TRUE]

\* setSpecificDetails: the page after it (it catches its own append failure)
SetSpecificDetails(doc, details) ==
  IF ~Truthy(details.title) \/ ~Truthy(details.favicon)
    THEN doc
  ELSE LET cleared == [doc EXCEPT !.title = details.title, !.links = OtherLinks(doc)]
       IN IF doc.head THEN AppendChild(cleared, Link("icon", details.favicon))
          ELSE cleared

\* a restore that leaves the page's icon links in place
RestoreWithoutRemoval(doc, details) ==
  LET titled == [doc EXCEPT !.title = details.title]
  IN IF Truthy(details.faviconHref) /\ doc.head
       THEN AppendChild(titled, Link(details.faviconRel, details.faviconHref))
     ELSE IF doc.head THEN AppendChild(titled, BlankIcon)
     ELSE titled

\* restoreTabDetails: the page after it (it catches its own append failures)
RestoreTabDetails(doc, details) ==
  LET cleared == [doc EXCEPT !.title = details.title, !.links = OtherLinks(doc)]
      wanted == Truthy(details.faviconHref)
      link == Link(IF Truthy(details.faviconRel) THEN details.faviconRel ELSE "icon",
                   details.faviconHref)
      linkRestoredOrRemoved == wanted /\ doc.head
  IN IF linkRestoredOrRemoved THEN AppendChild(cleared, link)
     ELSE IF doc.head THEN AppendChild(cleared, BlankIcon)
     ELSE cleared

(* ------------------------- snapshot storage keys ---------------------- *)
NaN == -1

RECURSIVE Digits(_)
\* the decimal digits of n, most significant first: String(n) for n >= 0
Digits(n) == IF n < 10 THEN <<n>> ELSE Append(Digits(n \div 10), n % 10)

\* originalDetails[tab.id]: the property key of a number is its decimal string
IdToKey(id) == Digits(id)

IsDigit(c) == c \in 0..9

RECURSIVE ParseDigits(_, _, _)
ParseDigits(key, i, acc) ==
  IF i > Len(key) \/ ~IsDigit(key[i]) THEN acc
  ELSE ParseDigits(key, i + 1, acc * 10 + key[i])

\* parseInt(tabIdStr): the leading digits, NaN when there is none
ParseInt(key) ==
  IF Len(key) = 0 \/ ~IsDigit(key[1]) THEN NaN ELSE ParseDigits(key, 1, 0)

(* ------------------------------ the browser --------------------------- *)
EmptyDoc == [title |-> "", links |-> << >>, meta |-> Null, head |-> TRUE]

\* what a tab shows after loading a site: its URL scheme and its document
Sites ==
  { [url |-> "https",
     doc |-> [title |-> "Inbox",
              links |-> << Link("stylesheet", "a.css"),
                           Link("apple-touch-icon", "touch.png"),
                           Link("icon", "a.ico") >>,
              meta |-> Null, head |-> TRUE]],
    [url |-> "http",
     doc |-> [title |-> "News", links |-> << >>, meta |-> Null, head |-> TRUE]],
    [url |-> "chrome",
     doc |-> [title |-> "Settings", links |-> << >>, meta |-> Null, head |-> TRUE]] }

\* the sites a new tab opens at: the first tab the https site, later tabs the
\* http site, any tab a browser page; navigation then leads to any site
HomeSites(t) ==
  {site \in Sites : \/ site.url = "chrome"
                    \/ site.url = (IF t = 1 THEN "https" ELSE "http")}

NoTab == [st |-> "unopened", url |-> "", doc |-> EmptyDoc]

ClosedTab == [st |-> "closed", url |-> "", doc |-> EmptyDoc]

\* tab.url.startsWith('http:') || tab.url.startsWith('https:')
IsHttpUrl(url) == url \in {"http", "https"}

(* --------------------------- the mapping file ------------------------- *)
Profile(title, favicon) == [title |-> title, favicon |-> favicon]

Entry(key, value) == [key |-> key, value |-> value]

\* a well-formed data/domain_mappings.json, as the entries of the parsed object
SampleMappings ==
  << Entry("docs", Profile("Quarterly report", "docs.png")),
     Entry("mail", Profile("Team calendar", "cal.png")) >>

JsonObject(entries) == [type |-> "object", entries |-> entries]

JsonOther(type) == [type |-> type, entries |-> << >>]

\* no fetch has been made
NoResponse == [kind |-> "none", ok |-> FALSE, value |-> JsonOther("null")]

\* what fetch + response.json() can come to
FetchOutcomes ==
  { [kind |-> "neterr", ok |-> FALSE, value |-> JsonOther("null")],
    [kind |-> "status", ok |-> FALSE, value |-> JsonOther("null")],
    [kind |-> "badjson", ok |-> TRUE, value |-> JsonOther("null")] }
  \cup { [kind |-> "json", ok |-> TRUE, value |-> v] :
           v \in { JsonOther("null"), JsonOther("number"), JsonOther("string"),
                   [type |-> "array", entries |-> SampleMappings],
                   JsonObject(<< >>), JsonObject(SampleMappings) } }

\* a loader without the shape validation of popup.js:12-15
LoadUnvalidated(outcome) ==
  IF outcome.kind \in {"neterr", "badjson"} \/ ~outcome.ok THEN << >>
  ELSE outcome.value.entries

\* loadDomainMappings: the mapping it returns, {} as the empty sequence
loadDomainMappings(outcome) ==
  IF outcome.kind = "neterr" THEN << >>
  ELSE IF ~outcome.ok THEN << >>
  ELSE IF outcome.kind = "badjson" THEN << >>
  ELSE IF outcome.value.type # "object" THEN << >>
  ELSE outcome.value.entries

\* Object.keys(domainMappings)
ObjectKeys(mappings) == [i \in 1..Len(mappings) |-> mappings[i].key]

\* undefined where a {title, favicon} object is expected
UndefinedDetails == Profile(Null, Null)

\* the numerators k of the values k / RandomSteps that Math.random() returns
MathRandom == 0..(RandomSteps - 1)

\* an index rounded to the nearest integer instead of down
RoundedKeyIndex(k, n) == (2 * k * n + RandomSteps) \div (2 * RandomSteps)

\* Math.floor(Math.random() * mappingKeys.length), for Math.random() = k / RandomSteps
RandomKeyIndex(k, n) == (k * n) \div RandomSteps

\* mappingKeys[randomKeyIndex]: undefined (Null) outside the array
KeyAt(mappingKeys, index) ==
  IF index + 1 \in DOMAIN mappingKeys THEN mappingKeys[index + 1] ELSE Null

\* domainMappings[randomDomainKey]: undefined when the object has no such key
Lookup(mappings, key) ==
  LET found == {mappings[i] : i \in {j \in 1..Len(mappings) : mappings[j].key = key}}
  IN IF found = {} THEN UndefinedDetails ELSE (CHOOSE e \in found : TRUE).value

DisguiseTitles ==
  {ZWSP} \cup {SampleMappings[i].value.title : i \in 1..Len(SampleMappings)}

ProfileFavicons == {SampleMappings[i].value.favicon : i \in 1..Len(SampleMappings)}

(* ------------------------------- state -------------------------------- *)
VARIABLES
  tabs,               \* the browser's tabs: [TabIds -> [st, url, doc]]
  storage,            \* chrome.storage.local's key originalTabDetails
  pc,                 \* per invocation context: the await it is suspended at
  mode,               \* manageTabs' argument
  tabsToModify,       \* manageTabs' tabsToModify while the mappings load: tab id -> url
  originalDetails,    \* manageTabs' originalDetails: key -> details
  domainMappings,     \* manageTabs' domainMappings
  response,           \* loadDomainMappings' response: what the fetch came to
  originalTabDetails, \* undoChanges' originalTabDetails: key -> details
  pending,            \* injections dispatched and not settled: tab id -> argument
  outcome,            \* how each injection of the current phase settled
  orig,               \* history: the document each tab loaded from its site
  nSet,               \* history: storage.set calls since the last undoChanges began
  started,            \* history: invocations started
  navs                \* history: navigations and closings made

vars == << tabs, storage, pc, mode, tabsToModify, originalDetails, domainMappings,
           response, originalTabDetails, pending, outcome, orig, nSet, started, navs >>

locals == << mode, tabsToModify, originalDetails, domainMappings, response,
            originalTabDetails >>

browser == << tabs, orig, navs >>

Empty == << >>

NoArg == "<none>"

\* the stored value: absent (undefined), or an object key -> details
Absent == [has |-> FALSE, val |-> Empty]

Stored(val) == [has |-> TRUE, val |-> val]

Remove(f, x) == [y \in DOMAIN f \ {x} |-> f[y]]

\* an assignment that replaces the whole object by the one new property
PutAlone(f, x, v) == [y \in {x} |-> v]

Put(f, x, v) == [y \in DOMAIN f \cup {x} |-> IF y = x THEN v ELSE f[y]]

IsOpen(t) == tabs[t].st = "open"

\* the eligibility of a tab as the browser has it now
Eligible(t) == IsOpen(t) /\ IsHttpUrl(tabs[t].url)

\* the tab shows a title this extension wrote as a disguise
Disguised(t) == IsOpen(t) /\ tabs[t].doc.title \in DisguiseTitles

\* chrome.tabs.query({}): every open tab with its id and url
TabsQuery == [t \in {u \in TabIds : IsOpen(u)} |-> tabs[t].url]

\* if (tab.id && tab.url && (tab.url.startsWith('http:') || ...))
PassesFilter(id, url) == id # 0 /\ Truthy(url) /\ IsHttpUrl(url)

\* a loop that passes over the tabs the stored snapshot has no entry for
FilterRecorded(q) ==
  {t \in DOMAIN q : PassesFilter(t, q[t]) /\ IdToKey(t) \in DOMAIN storage.val}

FilterTabs(q) == {t \in DOMAIN q : PassesFilter(t, q[t])}

\* a presence check that takes an empty object for a saved state
OnlyAbsent(st) == ~st.has

\* !existingSavedState || Object.keys(existingSavedState).length === 0
NoSavedState(st) == ~st.has \/ DOMAIN st.val = {}

\* a check that never takes the mapping for empty
NeverEmpty(mappingKeys) == FALSE

\* mappingKeys.length === 0
NoMappings(mappingKeys) == Len(mappingKeys) = 0

\* a removal that stores an empty object under the key
StoreEmpty(st) == [has |-> TRUE, val |-> << >>]

\* chrome.storage.local.remove('originalTabDetails')
StorageRemove(st) == [has |-> FALSE, val |-> << >>]

\* a join that never resumes its caller
NeverResumes(p) == FALSE

\* a continuation that does not wait for the promises
NoWait(p) == TRUE

\* await Promise.allSettled(promises): every promise of the phase has settled
AllSettled(p) == DOMAIN p = {}

Terminal == {"m_done", "m_abort", "u_done", "u_noop"}

Init ==
  /\ tabs = [t \in TabIds |-> NoTab]
  /\ storage = Absent
  /\ pc = [s \in Slots |-> "idle"]
  /\ mode = [s \in Slots |-> NoArg]
  /\ tabsToModify = [s \in Slots |-> Empty]
  /\ originalDetails = [s \in Slots |-> Empty]
  /\ domainMappings = [s \in Slots |-> Empty]
  /\ response = [s \in Slots |-> NoResponse]
  /\ originalTabDetails = [s \in Slots |-> Empty]
  /\ pending = [s \in Slots |-> Empty]
  /\ outcome = [s \in Slots |-> Empty]
  /\ orig = [t \in TabIds |-> EmptyDoc]
  /\ nSet = 0
  /\ started = 0
  /\ navs = 0

(* --------------------------- the environment -------------------------- *)
\* the user opens a tab; ids are handed out in increasing order
OpenTab(t) ==
  /\ tabs[t].st = "unopened"
  /\ \A u \in TabIds : u < t => tabs[u].st # "unopened"
  /\ \E site \in HomeSites(t) :
       /\ tabs' = [tabs EXCEPT ![t] = [st |-> "open", url |-> site.url, doc |-> site.doc]]
       /\ orig' = [orig EXCEPT ![t] = site.doc]
  /\ UNCHANGED << storage, pc, locals, pending, outcome, nSet, started, navs >>

\* a settled injection whose page has since been replaced no longer tells of the tab
Forget(o, t) == [u \in DOMAIN o |-> IF u = t THEN "gone" ELSE o[u]]

\* the tab loads another site: a new URL and a new document
Navigate(t) ==
  /\ IsOpen(t)
  /\ navs < MaxNav
  /\ \E site \in Sites :
       /\ site.url # tabs[t].url
       /\ tabs' = [tabs EXCEPT ![t] = [st |-> "open", url |-> site.url, doc |-> site.doc]]
       /\ orig' = [orig EXCEPT ![t] = site.doc]
  /\ navs' = navs + 1
  /\ outcome' = [s \in Slots |-> Forget(outcome[s], t)]
  /\ UNCHANGED << storage, pc, locals, pending, nSet, started >>

CloseTab(t) ==
  /\ IsOpen(t)
  /\ navs < MaxNav
  /\ navs' = navs + 1
  /\ tabs' = [tabs EXCEPT ![t] = ClosedTab]
  /\ orig' = [orig EXCEPT ![t] = EmptyDoc]
  /\ outcome' = [s \in Slots |-> Forget(outcome[s], t)]
  /\ UNCHANGED << storage, pc, locals, pending, nSet, started >>

(* ------------------------------ manageTabs ---------------------------- *)
\* a new invocation takes the lowest context that is not in use
FreeSlot(s) == pc[s] = "idle" /\ \A u \in Slots : u < s => pc[u] # "idle"

\* a click on purgeTabsBtn or professionalModeBtn: manageTabs runs to its first await
StartManage(s, m) ==
  /\ FreeSlot(s)
  /\ pc' = [pc EXCEPT ![s] = "m_get"]
  /\ mode' = [mode EXCEPT ![s] = m]
  /\ started' = started + 1
  /\ UNCHANGED << browser, storage, tabsToModify, originalDetails, domainMappings,
                  response, originalTabDetails, pending, outcome, nSet >>

\* a manageTabs that goes to its apply phase without looking at the saved state
ManageGetSkipsSave(s) ==
  /\ pc[s] = "m_get"
  /\ pc' = [pc EXCEPT ![s] = "m_query2"]
  /\ UNCHANGED << browser, storage, locals, pending, outcome, nSet, started >>

\* popup.js:29-32, 58-60: storage.get answers; the save phase runs only without a saved state
ManageGet(s) ==
  /\ pc[s] = "m_get"
  /\ pc' = [pc EXCEPT ![s] = IF NoSavedState(storage) THEN "m_query1" ELSE "m_query2"]
  /\ UNCHANGED << browser, storage, locals, pending, outcome, nSet, started >>

\* popup.js:34-55: tabs.query answers; one read is dispatched to every eligible tab
SaveDispatch(s) ==
  /\ pc[s] = "m_query1"
  /\ originalDetails' = [originalDetails EXCEPT ![s] = Empty]
  /\ pending' = [pending EXCEPT ![s] = [t \in FilterTabs(TabsQuery) |-> NoArg]]
  /\ outcome' = [outcome EXCEPT ![s] = Empty]
  /\ pc' = [pc EXCEPT ![s] = "m_save_wait"]
  /\ UNCHANGED << browser, storage, mode, tabsToModify, domainMappings, response,
                  originalTabDetails, nSet, started >>

\* a failure that takes the other injections of its phase down with it
SettledCancels(s, t, how) ==
  /\ pending' = [pending EXCEPT ![s] = IF how = "ok" THEN Remove(@, t) ELSE << >>]
  /\ outcome' = [outcome EXCEPT ![s] = Put(@, t, how)]

\* the .then / .catch of one executeScript call: that promise alone settles
Settled(s, t, how) ==
  /\ pending' = [pending EXCEPT ![s] = Remove(@, t)]
  /\ outcome' = [outcome EXCEPT ![s] = Put(@, t, how)]

Waiting(s) == pc[s] \in {"m_save_wait", "m_apply_wait", "u_wait"}

\* executeScript rejects: the tab is gone, its page may not be scripted, or the
\* injection fails for another reason; the .catch of the call logs it
SettleFail(s, t) ==
  /\ Waiting(s)
  /\ t \in DOMAIN pending[s]
  /\ Settled(s, t, IF IsOpen(t) THEN "err" ELSE "notab")
  /\ UNCHANGED << browser, storage, pc, locals, nSet, started >>

\* popup.js:43-48: getTabDetails ran in the tab, or the results hold no result
SettleRead(s, t) ==
  /\ pc[s] = "m_save_wait"
  /\ t \in DOMAIN pending[s]
  /\ Eligible(t)
  /\ \/ /\ \E complete \in BOOLEAN :
             originalDetails' = [originalDetails EXCEPT
               ![s] = Put(@, IdToKey(t), GetTabDetails(tabs[t].doc, complete))]
        /\ Settled(s, t, "ok")
     \/ /\ Settled(s, t, "empty")
        /\ UNCHANGED originalDetails
  /\ UNCHANGED << browser, storage, pc, mode, tabsToModify, domainMappings, response,
                  originalTabDetails, nSet, started >>

\* popup.js:55-56: every read has settled; the aggregate is written as one value
SaveWrite(s) ==
  /\ pc[s] = "m_save_wait"
  /\ AllSettled(pending[s])
  /\ storage' = Stored(originalDetails[s])
  /\ originalDetails' = [originalDetails EXCEPT ![s] = Empty]
  /\ nSet' = nSet + 1
  /\ pc' = [pc EXCEPT ![s] = "m_query2"]
  /\ UNCHANGED << browser, mode, tabsToModify, domainMappings, response,
                  originalTabDetails, pending, outcome, started >>

\* popup.js:64-78: tabs.query answers again; purgeAll dispatches its writes at once,
\* professional first awaits the mappings (popup.js:86)
ApplyQuery(s) ==
  /\ pc[s] = "m_query2"
  /\ outcome' = [outcome EXCEPT ![s] = Empty]
  /\ IF mode[s] = "purgeAll"
       THEN /\ pending' = [pending EXCEPT
                 ![s] = [t \in FilterTabs(TabsQuery) |-> NoArg]]
            /\ pc' = [pc EXCEPT ![s] = "m_apply_wait"]
            /\ UNCHANGED tabsToModify
       ELSE /\ tabsToModify' = [tabsToModify EXCEPT ![s] = TabsQuery]
            /\ pc' = [pc EXCEPT ![s] = "m_load"]
            /\ UNCHANGED pending
  /\ UNCHANGED << browser, storage, mode, originalDetails, domainMappings, response,
                  originalTabDetails, nSet, started >>

\* popup.js:86-114: the mappings are loaded; without keys manageTabs returns, else
\* every eligible tab of tabsToModify gets a profile drawn by Math.random
LoadAndApply(s) ==
  /\ pc[s] = "m_load"
  /\ \E fetched \in FetchOutcomes :
       LET mappings == loadDomainMappings(fetched)
           mappingKeys == ObjectKeys(mappings)
       IN /\ response' = [response EXCEPT ![s] = fetched]
          /\ domainMappings' = [domainMappings EXCEPT ![s] = mappings]
          /\ tabsToModify' = [tabsToModify EXCEPT ![s] = Empty]
          /\ IF NoMappings(mappingKeys)
               THEN /\ pc' = [pc EXCEPT ![s] = "m_abort"]
                    /\ UNCHANGED pending
               ELSE /\ \E random \in [FilterTabs(tabsToModify[s]) -> MathRandom] :
                         pending' = [pending EXCEPT ![s] =
                           [t \in FilterTabs(tabsToModify[s]) |->
                              LET randomKeyIndex ==
                                    RandomKeyIndex(random[t], Len(mappingKeys))
                                  randomDomainKey == KeyAt(mappingKeys, randomKeyIndex)
                              IN Lookup(mappings, randomDomainKey)]]
                    /\ pc' = [pc EXCEPT ![s] = "m_apply_wait"]
  /\ UNCHANGED << browser, storage, mode, originalDetails,
                  originalTabDetails, outcome, nSet, started >>

SetDoc(t, doc) == tabs' = [tabs EXCEPT ![t].doc = doc]

\* popup.js:72-75: purgeTabDetails ran in the tab
SettlePurge(s, t) ==
  /\ pc[s] = "m_apply_wait"
  /\ mode[s] = "purgeAll"
  /\ t \in DOMAIN pending[s]
  /\ Eligible(t)
  /\ LET r == PurgeTabDetails(tabs[t].doc)
     IN /\ SetDoc(t, r.doc)
        /\ Settled(s, t, IF r.threw THEN "err" ELSE "ok")
  /\ UNCHANGED << storage, pc, locals, orig, nSet, started, navs >>

\* popup.js:107-111: setSpecificDetails ran in the tab with its profile
SettleSpecific(s, t) ==
  /\ pc[s] = "m_apply_wait"
  /\ mode[s] = "professional"
  /\ t \in DOMAIN pending[s]
  /\ Eligible(t)
  /\ SetDoc(t, SetSpecificDetails(tabs[t].doc, pending[s][t]))
  /\ Settled(s, t, "ok")
  /\ UNCHANGED << storage, pc, locals, orig, nSet, started, navs >>

\* popup.js:79, 116, 122-126: every write has settled; manageTabs is complete
ManageDone(s) ==
  /\ pc[s] = "m_apply_wait"
  /\ AllSettled(pending[s])
  /\ pc' = [pc EXCEPT ![s] = "m_done"]
  /\ UNCHANGED << browser, storage, locals, pending, outcome, nSet, started >>

(* ------------------------------ undoChanges --------------------------- *)
\* a click on undoPurgeBtn: undoChanges runs to its first await
StartUndo(s) ==
  /\ FreeSlot(s)
  /\ pc' = [pc EXCEPT ![s] = "u_get"]
  /\ started' = started + 1
  /\ nSet' = 0
  /\ UNCHANGED << browser, storage, locals, pending, outcome >>

\* the tab ids of the entries that pass the isNaN check
ValidKeys(val) == {k \in DOMAIN val : ParseInt(k) # NaN}

\* a lookup that takes one entry for every tab
AnyKey(val, t) == CHOOSE k \in ValidKeys(val) : TRUE

KeyOf(val, t) == CHOOSE k \in ValidKeys(val) : ParseInt(k) = t

\* popup.js:148-152: one restore per entry, targeted at parseInt of its key
RestoreTargets(val) ==
  [t \in {ParseInt(k) : k \in ValidKeys(val)} |-> val[KeyOf(val, t)]]

\* popup.js:132-161: storage.get answers; without a snapshot undoChanges returns,
\* else it dispatches the restores
UndoGet(s) ==
  /\ pc[s] = "u_get"
  /\ IF NoSavedState(storage)
       THEN /\ pc' = [pc EXCEPT ![s] = "u_noop"]
            /\ UNCHANGED << originalTabDetails, pending, outcome >>
       ELSE /\ originalTabDetails' = [originalTabDetails EXCEPT ![s] = storage.val]
            /\ pending' = [pending EXCEPT ![s] = RestoreTargets(storage.val)]
            /\ outcome' = [outcome EXCEPT ![s] = Empty]
            /\ pc' = [pc EXCEPT ![s] = "u_wait"]
  /\ UNCHANGED << browser, storage, mode, tabsToModify, originalDetails, domainMappings,
                  response, nSet, started >>

\* popup.js:149-152: restoreTabDetails ran in the tab with the saved details
SettleRestore(s, t) ==
  /\ pc[s] = "u_wait"
  /\ t \in DOMAIN pending[s]
  /\ Eligible(t)
  /\ SetDoc(t, RestoreTabDetails(tabs[t].doc, pending[s][t]))
  /\ Settled(s, t, "ok")
  /\ UNCHANGED << storage, pc, locals, orig, nSet, started, navs >>

\* popup.js:162-164: every restore has settled; the key is removed
UndoClear(s) ==
  /\ pc[s] = "u_wait"
  /\ AllSettled(pending[s])
  /\ storage' = StorageRemove(storage)
  /\ pc' = [pc EXCEPT ![s] = "u_done"]
  /\ UNCHANGED << browser, locals, pending, outcome, nSet, started >>

\* the async function's promise resolves; nothing awaits it (popup.js:169-171)
Return(s) ==
  /\ pc[s] \in Terminal
  /\ pc' = [pc EXCEPT ![s] = "idle"]
  /\ mode' = [mode EXCEPT ![s] = NoArg]
  /\ tabsToModify' = [tabsToModify EXCEPT ![s] = Empty]
  /\ originalDetails' = [originalDetails EXCEPT ![s] = Empty]
  /\ domainMappings' = [domainMappings EXCEPT ![s] = Empty]
  /\ response' = [response EXCEPT ![s] = NoResponse]
  /\ originalTabDetails' = [originalTabDetails EXCEPT ![s] = Empty]
  /\ outcome' = [outcome EXCEPT ![s] = Empty]
  /\ UNCHANGED << browser, storage, pending, nSet, started >>

(* --------------------------- specifications --------------------------- *)
Modes == {"purgeAll", "professional"}

Step(s) ==
  \/ ManageGet(s)
  \/ SaveDispatch(s)
  \/ SaveWrite(s)
  \/ ApplyQuery(s)
  \/ LoadAndApply(s)
  \/ ManageDone(s)
  \/ UndoGet(s)
  \/ UndoClear(s)
  \/ Return(s)
  \/ \E t \in TabIds :
       \/ SettleFail(s, t)
       \/ SettleRead(s, t)
       \/ SettlePurge(s, t)
       \/ SettleSpecific(s, t)
       \/ SettleRestore(s, t)

Environment == \E t \in TabIds : OpenTab(t) \/ Navigate(t) \/ CloseTab(t)

\* clicks may come while an earlier invocation is still suspended at an await
Next ==
  \/ Environment
  \/ \E s \in Slots : Step(s)
  \/ started < MaxOverlapInv
       /\ \E s \in Slots : StartUndo(s) \/ \E m \in Modes : StartManage(s, m)

Spec == Init /\ [][Next]_vars

Quiet == \A s \in Slots : pc[s] = "idle"

\* one invocation at a time: each click waits for the earlier invocation to return
NextSeq ==
  \/ Environment
  \/ \E s \in Slots : Step(s)
  \/ Quiet /\ started < MaxInv
       /\ \E s \in Slots : StartUndo(s) \/ \E m \in Modes : StartManage(s, m)

SpecSeq == Init /\ [][NextSeq]_vars

(* ------------------------------ scheduling ---------------------------- *)
\* the steps in which an awaited storage, enumeration or load call answers, or
\* a join resumes, or the invocation returns
Resume(s) ==
  \/ ManageGet(s)
  \/ SaveDispatch(s)
  \/ SaveWrite(s)
  \/ ApplyQuery(s)
  \/ LoadAndApply(s)
  \/ ManageDone(s)
  \/ UndoGet(s)
  \/ UndoClear(s)
  \/ Return(s)

\* the injection dispatched to tab t settles, one way or the other
SettleOne(s, t) ==
  \/ SettleFail(s, t)
  \/ SettleRead(s, t)
  \/ SettlePurge(s, t)
  \/ SettleSpecific(s, t)
  \/ SettleRestore(s, t)

\* every call that is awaited answers in the end, and every injection settles
Fairness ==
  \A s \in Slots :
    /\ WF_vars(Resume(s))
    /\ \A t \in TabIds : WF_vars(SettleOne(s, t))

SpecFair == Init /\ [][NextSeq]_vars /\ Fairness

(* ------------------- the injected functions on any page ---------------- *)
\* link elements of a page under injection
MaxLinks == 2

\* the link elements a page may hold
PageLinks ==
  { Link("stylesheet", "a.css"), Link("icon", "a.ico"),
    Link("shortcut icon", "b.ico"), Link("apple-touch-icon", "touch.png") }

\* the sequences over S of length at most n
SeqsUpTo(S, n) == UNION {[1..k -> S] : k \in 0..n}

\* the documents an injected function may find: any title (one left by a
\* disguise included), any links, with or without a meta image, and with a
\* head or, as an SVG or XML document, without one
Docs ==
  { [title |-> title, links |-> links, meta |-> meta, head |-> head] :
      title \in {"Inbox", ZWSP}, links \in SeqsUpTo(PageLinks, MaxLinks),
      meta \in {Null, "m.png"}, head \in BOOLEAN }

\* the details a snapshot may hold: whatever getTabDetails returns on a page
SavedDetails == {GetTabDetails(d, complete) : d \in Docs, complete \in BOOLEAN}

\* the injections that may be pending for a tab: the wait their invocation is
\* at, its mode, and the argument of the injected function
Calls ==
  { [pc |-> "m_save_wait", mode |-> m, arg |-> NoArg] : m \in Modes }
  \cup { [pc |-> "m_apply_wait", mode |-> "purgeAll", arg |-> NoArg] }
  \cup { [pc |-> "m_apply_wait", mode |-> "professional", arg |-> SampleMappings[i].value] :
           i \in 1..Len(SampleMappings) }
  \cup { [pc |-> "u_wait", mode |-> NoArg, arg |-> details] : details \in SavedDetails }

\* tab 1 shows any document and one injection into it is pending
InitPage ==
  \E d \in Docs, call \in Calls :
    LET snapshot == IF call.pc = "u_wait" THEN Put(Empty, IdToKey(1), call.arg)
                    ELSE Empty
        loaded == call.pc = "m_apply_wait" /\ call.mode = "professional"
    IN /\ tabs = [t \in TabIds |-> IF t = 1 THEN [st |-> "open", url |-> "https", doc |-> d]
                                            ELSE NoTab]
       /\ orig = [t \in TabIds |-> IF t = 1 THEN d ELSE EmptyDoc]
       /\ storage = IF call.pc = "m_save_wait" THEN Absent ELSE Stored(snapshot)
       /\ pc = [s \in Slots |-> IF s = 1 THEN call.pc ELSE "idle"]
       /\ mode = [s \in Slots |-> IF s = 1 THEN call.mode ELSE NoArg]
       /\ tabsToModify = [s \in Slots |-> Empty]
       /\ originalDetails = [s \in Slots |-> Empty]
       /\ domainMappings = [s \in Slots |-> IF s = 1 /\ loaded THEN SampleMappings ELSE Empty]
       /\ response = [s \in Slots |->
            IF s = 1 /\ loaded
              THEN [kind |-> "json", ok |-> TRUE, value |-> JsonObject(SampleMappings)]
              ELSE NoResponse]
       /\ originalTabDetails = [s \in Slots |-> IF s = 1 THEN snapshot ELSE Empty]
       /\ pending = [s \in Slots |-> IF s = 1 THEN Put(Empty, 1, call.arg) ELSE Empty]
       /\ outcome = [s \in Slots |-> Empty]
       /\ nSet = 0
       /\ started = 1
       /\ navs = 0

\* the injected function runs in the page
NextPage ==
  \E s \in Slots, t \in TabIds :
    \/ SettleRead(s, t)
    \/ SettlePurge(s, t)
    \/ SettleSpecific(s, t)
    \/ SettleRestore(s, t)

SpecPage == InitPage /\ [][NextPage]_vars

(* ------------------------------- claims ------------------------------- *)
\* the tabs the persisted snapshot has an entry for
RecordedTabs == {t \in TabIds : IdToKey(t) \in DOMAIN storage.val}

SavedFor(t) == storage.val[IdToKey(t)]

\* C1: two manageTabs in a row with no undo in between leave the persisted
\* snapshot with the original details of the tabs. nSet counts the snapshot
\* writes since the last undo: even in its weakest reading, where a second write
\* is let pass, the snapshot of a completed manageTabs never holds a title that
\* a disguise wrote.
C1_SecondDisguiseKeepsOriginal ==
  \A s \in Slots :
    (pc[s] \in {"m_done", "m_abort"} /\ nSet >= 2) =>
      \A t \in RecordedTabs : SavedFor(t).title \notin DisguiseTitles

\* C3: in every reachable state every entry of the persisted snapshot holds
\* pre-disguise details: no title, and no favicon, that this extension wrote.
C3_SnapshotHoldsPreDisguise ==
  \A t \in RecordedTabs :
    /\ SavedFor(t).title \notin DisguiseTitles
    /\ SavedFor(t).faviconHref \notin ProfileFavicons \cup {blankFavicon}

\* the details undoChanges read for tab t
Captured(s, t) == originalTabDetails[s][IdToKey(t)]

\* what a read of the document the tab loaded from its site can return
Originals(t) == {GetTabDetails(orig[t], complete) : complete \in BOOLEAN}

\* the tabs an undoChanges that has completed restored from their original details
RoundTripped(s) ==
  {t \in TabIds : /\ pc[s] = "u_done"
                  /\ t \in DOMAIN outcome[s]
                  /\ outcome[s][t] = "ok"
                  /\ IdToKey(t) \in DOMAIN originalTabDetails[s]
                  /\ Captured(s, t) \in Originals(t)}

C4_RestoreOnlyEligible ==
  [][\A s \in Slots : \A t \in TabIds :
       (pc'[s] = "u_wait" /\ t \in DOMAIN pending'[s] /\ t \notin DOMAIN pending[s]
          /\ IsOpen(t))
         => IsHttpUrl(tabs[t].url)]_vars

C6_EmptyMappingAborts ==
  [][\A s \in Slots :
       (pc[s] = "m_load" /\ pc'[s] # "m_load" /\ Len(domainMappings'[s]) = 0)
         => /\ pc'[s] = "m_abort"
            /\ pending' = pending
            /\ pending[s] = Empty
            /\ tabs' = tabs
            /\ storage' = storage]_vars

\* C6's case: professional mode aborted right after its save phase wrote a snapshot
C6_Witness ==
  \E s \in Slots :
    /\ pc[s] = "m_abort"
    /\ nSet = 1
    /\ storage.has
    /\ RecordedTabs # {}
    /\ \A t \in RecordedTabs : IsOpen(t) /\ ~Disguised(t)

\* C7: undoChanges that finds no snapshot (the key absent, or an empty object)
\* returns at once: no injection is dispatched and storage and tabs are as before.
C7_UndoWithoutSnapshotIsNoOp ==
  [][\A s \in Slots :
       (pc[s] = "u_get" /\ pc'[s] # "u_get"
          /\ (~storage.has \/ storage.val = Empty))
         => /\ pc'[s] = "u_noop"
            /\ pending' = pending
            /\ pending[s] = Empty
            /\ tabs' = tabs
            /\ storage' = storage]_vars

\* C7's case: undoChanges returned early over a stored empty object
C7_Witness ==
  \E s \in Slots : pc[s] = "u_noop" /\ storage.has /\ storage.val = Empty

\* C8: an undoChanges that found a snapshot leaves its wait only with every
\* restore settled, and that step removes the key, however the restores ended;
\* no other step of undoChanges touches the key.
C8_UndoClearsSnapshot ==
  [][\A s \in Slots :
       /\ (pc[s] = "u_wait" /\ pc'[s] # "u_wait")
            => (pending[s] = Empty /\ pc'[s] = "u_done" /\ ~storage'.has)
       /\ (pc[s] \in {"u_get", "u_wait", "u_done", "u_noop"} /\ pc'[s] # "u_done"
             /\ pc'[s] # pc[s])
            => storage' = storage]_vars

\* C8's case: undoChanges completed although a restore failed, and the key is gone
C8_Witness ==
  \E s \in Slots : \E t, u \in TabIds :
    /\ pc[s] = "u_done"
    /\ ~storage.has
    /\ t \in DOMAIN outcome[s] /\ outcome[s][t] \in {"err", "notab"}
    /\ u \in DOMAIN outcome[s] /\ outcome[s][u] = "ok"

\* the tabs an invocation has dispatched an injection to in its current phase
Dispatched(s) == DOMAIN pending[s] \cup DOMAIN outcome[s]

\* C9: in manageTabs each phase dispatches one injection to every eligible tab
\* of its enumeration; the settling of one, failure or not, removes that one
\* alone and the phase goes on; a read that succeeds is in the aggregate and a
\* write that succeeds has disguised its tab; the phase ends only with all
\* settled, in the next step of a normal run.
C9_FailureIsolation ==
  [][\A s \in Slots :
       /\ (pc[s] = "m_query1" /\ pc'[s] # "m_query1")
            => (pc'[s] = "m_save_wait"
                /\ DOMAIN pending'[s] = {t \in TabIds : Eligible(t)})
       /\ (pc[s] = "m_query2" /\ pc'[s] = "m_apply_wait")
            => DOMAIN pending'[s] = {t \in TabIds : Eligible(t)}
       /\ (pc[s] = "m_load" /\ pc'[s] = "m_apply_wait")
            => DOMAIN pending'[s] =
                 {t \in DOMAIN tabsToModify[s] : IsHttpUrl(tabsToModify[s][t])}
       /\ (pc[s] \in {"m_save_wait", "m_apply_wait"} /\ pc'[s] = pc[s])
            => /\ Dispatched(s)' = Dispatched(s)
               /\ Cardinality(DOMAIN pending[s] \ DOMAIN pending'[s]) <= 1
               /\ \A t \in DOMAIN pending[s] \ DOMAIN pending'[s] :
                    outcome'[s][t] = "ok" =>
                      IF pc[s] = "m_save_wait"
                        THEN IdToKey(t) \in DOMAIN originalDetails'[s]
                        ELSE Disguised(t)'
       /\ (pc[s] = "m_save_wait" /\ pc'[s] # pc[s])
            => (pending[s] = Empty /\ pc'[s] = "m_query2"
                /\ storage' = Stored(originalDetails[s]))
       /\ (pc[s] = "m_apply_wait" /\ pc'[s] # pc[s])
            => (pending[s] = Empty /\ pc'[s] = "m_done")]_vars

\* C9's case: a manageTabs completed in which the write of one tab failed and
\* the write of another disguised its tab
C9_Witness ==
  \E s \in Slots : \E t, u \in TabIds :
    /\ pc[s] = "m_done"
    /\ t \in DOMAIN outcome[s] /\ outcome[s][t] \in {"err", "notab"}
    /\ u \in DOMAIN outcome[s] /\ outcome[s][u] = "ok"
    /\ Disguised(u)

\* C10: a manageTabs that has completed, or returned, has no write outstanding.
C10_NoWriteOutstandingAtReturn ==
  \A s \in Slots : pc[s] \in {"m_done", "m_abort", "idle"} => pending[s] = Empty

\* C10's case: a manageTabs completed whose apply phase dispatched two writes
C10_Witness ==
  \E s \in Slots :
    pc[s] = "m_done" /\ Cardinality(DOMAIN outcome[s]) >= 2

\* the fetch answered with an ok status and a body that parses to a plain,
\* non-array object
PlainObject(r) == r.kind = "json" /\ r.ok /\ r.value.type = "object"

\* C11: whatever the fetch came to, manageTabs goes on with the mapping that
\* loadDomainMappings returned: the parsed value itself exactly when it is a
\* plain non-array object, and the empty mapping for a transport error, a
\* non-OK status, a parse error, null, a non-object and an array.
C11_LoadNeverFails ==
  \A s \in Slots :
    response[s] # NoResponse =>
      /\ pc[s] \in {"m_apply_wait", "m_done", "m_abort"}
      /\ domainMappings[s] = IF PlainObject(response[s])
                               THEN response[s].value.entries
                               ELSE Empty

\* C11's case: the file held a non-empty array, and the caller went on with
\* the empty mapping
C11_Witness ==
  \E s \in Slots :
    /\ response[s].kind = "json"
    /\ response[s].value.type = "array"
    /\ response[s].value.entries # << >>
    /\ domainMappings[s] = Empty
    /\ pc[s] = "m_abort"

\* the injected function of the pending injection has run in tab t
Ran(s, t) == t \in DOMAIN outcome[s] /\ outcome[s][t] \in {"ok", "err"}

\* every element of the sequence is x
AllAre(links, x) == \A i \in 1..Len(links) : links[i] = x

\* C12: after purgeTabDetails has run on any page, the title is the zero-width
\* space, every icon-relation link has the blank GIF as href and "icon" as
\* relation, and at least one such link exists.
C12_BlankWriteAsStated ==
  \A s \in Slots : \A t \in TabIds :
    (pc[s] = "m_apply_wait" /\ mode[s] = "purgeAll" /\ Ran(s, t)) =>
      /\ tabs[t].doc.title = ZWSP
      /\ AllAre(IconLinks(tabs[t].doc), BlankIcon)
      /\ IconLinks(tabs[t].doc) # << >>

\* C13: once a manageTabs and an undoChanges issued concurrently have both
\* completed, every open eligible tab that is still disguised has an entry in
\* the persisted snapshot that holds its original details. Stated for the tabs
\* both invocations acted on: tabs that had a snapshot entry for the undo to
\* restore from, and that the manageTabs disguised.
C13_NoOriginalLost ==
  \A m, u \in Slots : \A t \in TabIds :
    ( /\ pc[m] = "m_done" /\ pc[u] = "u_done"
      /\ t \in DOMAIN outcome[m] /\ outcome[m][t] = "ok"
      /\ t \in DOMAIN outcome[u] /\ outcome[u][t] = "ok"
      /\ Eligible(t) /\ Disguised(t) )
      => /\ t \in RecordedTabs
         /\ SavedFor(t) \in Originals(t)

\* the injections of s that settle in this step
Settling(s) == DOMAIN pending[s] \ DOMAIN pending'[s]

\* C14: in the save phase the aggregate holds one entry per tab whose read
\* returned a result, and nothing else: a read that returns a result adds the
\* entry of its own tab, read from that tab's page, and leaves the other
\* entries as they are; a read that fails or returns nothing adds and alters
\* nothing; the aggregate is empty when the reads are dispatched, its keys are
\* tabs of the enumeration, and the snapshot persisted is that aggregate.
C14_SnapshotKeys ==
  [][\A s \in Slots :
       /\ (pc[s] = "m_query1" /\ pc'[s] = "m_save_wait")
            => (originalDetails'[s] = Empty /\ outcome'[s] = Empty)
       /\ (pc[s] = "m_save_wait" /\ pc'[s] = "m_save_wait")
            => \A t \in TabIds :
                 IF t \in Settling(s) /\ outcome'[s][t] = "ok"
                   THEN /\ \E complete \in BOOLEAN :
                             originalDetails'[s] =
                               Put(originalDetails[s], IdToKey(t),
                                   GetTabDetails(tabs[t].doc, complete))
                        /\ IdToKey(t) \notin DOMAIN originalDetails[s]
                   ELSE t \in Settling(s) => originalDetails'[s] = originalDetails[s]
       /\ (pc[s] = "m_save_wait" /\ pc'[s] # "m_save_wait")
            => /\ storage' = Stored(originalDetails[s])
               /\ \A t \in TabIds :
                    /\ IdToKey(t) \in DOMAIN storage'.val => t \in DOMAIN outcome[s]
                    /\ (t \in DOMAIN outcome[s] /\ outcome[s][t] = "ok")
                         => IdToKey(t) \in DOMAIN storage'.val
                    /\ (t \in DOMAIN outcome[s]
                          /\ outcome[s][t] \in {"err", "notab", "empty"})
                         => IdToKey(t) \notin DOMAIN storage'.val]_vars

\* C14's case: a snapshot was persisted that holds the entry of the one tab
\* whose read returned a result, while the read of the other tab failed
C14_Witness ==
  \E s \in Slots : \E t, u \in TabIds :
    /\ pc[s] = "m_query2"
    /\ t \in DOMAIN outcome[s] /\ outcome[s][t] \in {"err", "empty"}
    /\ u \in DOMAIN outcome[s] /\ outcome[s][u] = "ok"
    /\ RecordedTabs = {u}
    /\ SavedFor(u) \in Originals(u)

\* the step is one of invocation s (not of the browser or of another invocation)
StepOf(s) == pc'[s] # pc[s] \/ pending'[s] # pending[s]

\* the documents of all tabs
Documents == [t \in TabIds |-> tabs[t].doc]

\* C15: within one manageTabs the phases follow one another: reads are
\* dispatched only after the storage.get, the snapshot is written only when
\* every read has settled, writes are dispatched only after that write (or
\* after a storage.get that found a saved state), and no step of the save
\* phase changes a page; the wait for the writes leads only to completion. So
\* what the first invocation after the popup opened reads and persists holds no
\* title that a disguise wrote.
C15_PhaseOrdering ==
  [][\A s \in Slots :
       /\ (pc'[s] = "m_save_wait" /\ pc[s] # "m_save_wait") => pc[s] = "m_query1"
       /\ (pc'[s] = "m_query1" /\ pc[s] # "m_query1")
            => (pc[s] = "m_get" /\ NoSavedState(storage))
       /\ (pc[s] = "m_save_wait" /\ pc'[s] # "m_save_wait")
            => (pending[s] = Empty /\ pc'[s] = "m_query2" /\ storage'.has)
       /\ (pc'[s] = "m_query2" /\ pc[s] # "m_query2")
            => \/ pc[s] = "m_save_wait"
               \/ pc[s] = "m_get" /\ ~NoSavedState(storage)
       /\ (pc'[s] = "m_apply_wait" /\ pc[s] # "m_apply_wait")
            => pc[s] \in {"m_query2", "m_load"}
       /\ (pc'[s] = "m_load" /\ pc[s] # "m_load") => pc[s] = "m_query2"
       /\ (pc[s] = "m_apply_wait" /\ pc'[s] # "m_apply_wait") => pc'[s] = "m_done"
       /\ (pc[s] \in {"m_get", "m_query1", "m_save_wait", "m_query2", "m_load"}
             /\ StepOf(s))
            => Documents' = Documents
       /\ started' = 1
            => /\ \A k \in DOMAIN originalDetails'[s] :
                    originalDetails'[s][k].title \notin DisguiseTitles
               /\ \A k \in DOMAIN storage'.val :
                    storage'.val[k].title \notin DisguiseTitles]_vars

\* C15's case: the first manageTabs has written a snapshot of an open tab and
\* now waits for the write it dispatched to that tab
C15_Witness ==
  \E s \in Slots : \E t \in RecordedTabs :
    /\ started = 1
    /\ nSet = 1
    /\ pc[s] = "m_apply_wait"
    /\ t \in DOMAIN pending[s]
    /\ SavedFor(t) \in Originals(t)

\* the tabs the snapshot that undoChanges s read has no entry for
Unrecorded(s) == {t \in TabIds : IdToKey(t) \notin DOMAIN originalTabDetails[s]}

\* C16: the apply phase dispatches its write to every eligible tab of its own
\* enumeration, a tab without a snapshot entry (one opened after the reads were
\* dispatched) included; undoChanges dispatches a restore to no tab that the
\* snapshot it read has no entry for, and none of its steps changes the page of
\* such a tab: a tab disguised without an entry is disguised after the undo.
C16_LateTabStaysDisguised ==
  [][\A s \in Slots : \A t \in TabIds :
       /\ (pc[s] = "m_query2" /\ pc'[s] = "m_apply_wait"
             /\ Eligible(t) /\ t \notin RecordedTabs)
            => t \in DOMAIN pending'[s]
       /\ (pc[s] = "m_load" /\ pc'[s] = "m_apply_wait"
             /\ t \in DOMAIN tabsToModify[s] /\ IsHttpUrl(tabsToModify[s][t])
             /\ t \notin RecordedTabs)
            => t \in DOMAIN pending'[s]
       /\ (pc[s] = "u_get" /\ pc'[s] = "u_wait" /\ t \notin RecordedTabs)
            => (t \notin DOMAIN pending'[s] /\ t \in Unrecorded(s)')
       /\ (pc[s] \in {"u_get", "u_wait"} /\ StepOf(s) /\ t \in Unrecorded(s)')
            => /\ tabs'[t] = tabs[t]
               /\ t \notin DOMAIN pending'[s]
               /\ Disguised(t) => Disguised(t)']_vars

\* C16's case: undoChanges has completed and restored tab 1 from the snapshot,
\* while tab 2, opened later and disguised without an entry, is still disguised
C16_Witness ==
  \E s \in Slots :
    /\ pc[s] = "u_done"
    /\ DOMAIN originalTabDetails[s] = {IdToKey(1)}
    /\ 1 \in DOMAIN outcome[s] /\ outcome[s][1] = "ok"
    /\ ~Disguised(1)
    /\ Eligible(2) /\ Disguised(2)
    /\ ~storage.has

\* the values of a mapping
ProfilesOf(mappings) == {mappings[i].value : i \in 1..Len(mappings)}

\* C17: when manageTabs('professional') has loaded a mapping with keys, it
\* dispatches setSpecificDetails to every eligible tab of the apply-phase
\* enumeration and to no other; the profile each one carries is a value of the
\* loaded mapping; while the writes are awaited none is dispatched anew, and a
\* write that ran leaves its tab with the title of the profile it carried.
C17_ProfessionalWrites ==
  [][\A s \in Slots :
       /\ (pc[s] = "m_load" /\ pc'[s] = "m_apply_wait")
            => /\ Len(domainMappings'[s]) > 0
               /\ DOMAIN pending'[s] =
                    {t \in DOMAIN tabsToModify[s] : IsHttpUrl(tabsToModify[s][t])}
               /\ \A t \in DOMAIN pending'[s] :
                    pending'[s][t] \in ProfilesOf(domainMappings'[s])
       /\ (pc[s] = "m_apply_wait" /\ mode[s] = "professional")
            => /\ DOMAIN pending'[s] \subseteq DOMAIN pending[s]
               /\ \A t \in Settling(s) :
                    outcome'[s][t] = "ok" =>
                      tabs'[t].doc.title = pending[s][t].title]_vars

\* C17's case: two eligible tabs have each been sent one write, both with the
\* same profile of a mapping that holds two
C17_Witness ==
  \E s \in Slots :
    /\ pc[s] = "m_apply_wait"
    /\ mode[s] = "professional"
    /\ Len(domainMappings[s]) = 2
    /\ DOMAIN pending[s] = {1, 2}
    /\ pending[s][1] = pending[s][2]
    /\ pending[s][1] = domainMappings[s][2].value

\* C18: undoChanges dispatches one restore per snapshot entry and no other:
\* the restore of the entry stored under key k goes to the tab whose id is k
\* and carries that entry's details; none is dispatched anew while they are
\* awaited, and a restore that runs changes its own tab alone, by the details
\* stored under that tab's id. The entry under key k was captured from the tab
\* whose id is k: the save phase adds an entry under k only as the details read
\* from the page of that tab, never alters an entry it holds, and the stored
\* value changes only to a finished aggregate of a save phase or by removal.
C18_RestoreToOwnTab ==
  [][/\ \A s \in Slots :
          /\ (pc[s] = "u_get" /\ pc'[s] = "u_wait")
               => /\ Cardinality(DOMAIN pending'[s]) = Cardinality(DOMAIN storage.val)
                  /\ \A k \in DOMAIN storage.val :
                       /\ ParseInt(k) \in DOMAIN pending'[s]
                       /\ IdToKey(ParseInt(k)) = k
                       /\ pending'[s][ParseInt(k)] = storage.val[k]
          /\ pc[s] = "u_wait"
               => /\ DOMAIN pending'[s] \subseteq DOMAIN pending[s]
                  /\ \A t \in Settling(s) :
                       outcome'[s][t] = "ok" =>
                         /\ tabs'[t].doc =
                              RestoreTabDetails(tabs[t].doc, storage.val[IdToKey(t)])
                         /\ \A u \in TabIds \ {t} : tabs'[u] = tabs[u]
          /\ (pc[s] = "m_save_wait" /\ pc'[s] = "m_save_wait")
               => \A k \in DOMAIN originalDetails'[s] :
                    IF k \in DOMAIN originalDetails[s]
                      THEN originalDetails'[s][k] = originalDetails[s][k]
                      ELSE /\ ParseInt(k) \in TabIds
                           /\ IdToKey(ParseInt(k)) = k
                           /\ \E complete \in BOOLEAN :
                                originalDetails'[s][k] =
                                  GetTabDetails(tabs[ParseInt(k)].doc, complete)
     /\ storage' # storage
          => \/ storage' = StorageRemove(storage)
             \/ \E s \in Slots : /\ pc[s] = "m_save_wait"
                                 /\ AllSettled(pending[s])
                                 /\ storage' = Stored(originalDetails[s])]_vars

\* C18's case: undoChanges completed after tab 1, which the snapshot held,
\* had closed and tab 2 had opened: the restore went to tab 1 and found no tab,
\* and tab 2 shows the page it loaded
C18_Witness ==
  \E s \in Slots :
    /\ pc[s] = "u_done"
    /\ DOMAIN originalTabDetails[s] = {IdToKey(1)}
    /\ tabs[1].st = "closed"
    /\ DOMAIN outcome[s] = {1}
    /\ outcome[s][1] = "notab"
    /\ Eligible(2)
    /\ tabs[2].doc = orig[2]

\* C19: after restoreTabDetails has run on any page with saved details, the
\* title is the saved title, the links that are no icon links are as before,
\* and the page holds one icon link: the saved href with the saved relation
\* when an href was saved and the append succeeds (the page has a head), and
\* the blank GIF with relation "icon" when none was saved or the append fails.
C19_RestoreAsStated ==
  \A s \in Slots : \A t \in TabIds :
    (pc[s] = "u_wait" /\ Ran(s, t)) =>
      LET details == Captured(s, t)
          appended == Truthy(details.faviconHref) /\ orig[t].head
      IN /\ tabs[t].doc.title = details.title
         /\ OtherLinks(tabs[t].doc) = OtherLinks(orig[t])
         /\ IconLinks(tabs[t].doc) =
              << IF appended
                   THEN Link(IF Truthy(details.faviconRel) THEN details.faviconRel
                             ELSE "icon",
                             details.faviconHref)
                   ELSE BlankIcon >>

\* C20: if every awaited storage, enumeration and load call answers in the end
\* and every dispatched injection settles in the end, every manageTabs and
\* every undoChanges that was started completes.
C20_Termination ==
  \A s \in Slots : (pc[s] # "idle") ~> (pc[s] \in Terminal)

\* C20's case: the third invocation of a run, an undoChanges, has completed
\* after the two restores it waited for settled, one of them with a failure
C20_Witness ==
  \E s \in Slots : \E t \in TabIds :
    /\ started = MaxInv
    /\ pc[s] = "u_done"
    /\ Cardinality(DOMAIN outcome[s]) = 2
    /\ outcome[s][t] \in {"err", "notab"}

====
